---- MODULE Spec2Model ----
(***************************************************************************)
(* Model of the assertion evaluation engine of promptfoo                   *)
(* (src/src/web/server.ts, lines 80-345): runAssertions, runAssertion,     *)
(* containsJSON, matchesSimilarity, matchesLlmRubric, assertionFromString. *)
(*                                                                         *)
(* Encodings.  A string is a sequence of one-character strings (JSON texts *)
(* and judge outputs are sequences of lexical units).  A JavaScript value  *)
(* that the code only tests for truthiness or type is a record             *)
(* [type, truthy].  An optional field f of an object is a pair of fields   *)
(* hasF / f, or a record with a def flag.  Numbers that are thresholds are *)
(* integers in hundredths (0.75 is 75).                                    *)
(***************************************************************************)
EXTENDS Integers, Sequences, FiniteSets, TLC

\* ------------------------------------------------------------------ bounds
MaxAsserts == 2
MaxPieces == 2

\* ------------------------------------------------------- JavaScript values
JsBool(b) == [type |-> "boolean", truthy |-> b]
JsUndefined == [type |-> "undefined", truthy |-> FALSE]
JsNumber(n) == [type |-> "number", truthy |-> n # 0]
JsString(s) == [type |-> "string", truthy |-> s # <<>>]
Truthy(v) == v.truthy
IsBoolean(v) == v.type = "boolean"

\* reason: string | undefined
Reason(msg, arg) == [def |-> TRUE, msg |-> msg, arg |-> arg]
NoReason == [def |-> FALSE, msg |-> "", arg |-> <<>>]

\* TokenUsage | undefined
Tokens(t, p, c) == [def |-> TRUE, total |-> t, prompt |-> p, completion |-> c]
NoTokens == [def |-> FALSE, total |-> 0, prompt |-> 0, completion |-> 0]

\* x?.f || 0 on an optional TokenUsage
OrZero(u, f) == IF u.def THEN u[f] ELSE 0

GradingResult(pass, reason, tokensUsed) ==
  [pass |-> pass, reason |-> reason, tokensUsed |-> tokensUsed]

\* what a call of an async function produces: a value or an exception,
\* together with the provider calls it made
Returned(result, calls) ==
  [thrown |-> FALSE, error |-> "", result |-> result, calls |-> calls]
Thrown(error) ==
  [thrown |-> TRUE, error |-> error,
   result |-> GradingResult(JsUndefined, NoReason, NoTokens), calls |-> <<>>]

\* --------------------------------------------------------- string helpers
HasAt(s, p, lit) ==
  /\ p >= 1
  /\ p + Len(lit) - 1 <= Len(s)
  /\ \A k \in 1..Len(lit) : s[p + k - 1] = lit[k]

startsWith(s, lit) == HasAt(s, 1, lit)

slice(s, n) == SubSeq(s, n + 1, Len(s))

IsSpace(c) == c = " "

RECURSIVE trimStart(_)
trimStart(s) ==
  IF s # <<>> /\ IsSpace(Head(s)) THEN trimStart(Tail(s)) ELSE s

RECURSIVE trimEnd(_)
trimEnd(s) ==
  IF s # <<>> /\ IsSpace(s[Len(s)]) THEN trimEnd(SubSeq(s, 1, Len(s) - 1)) ELSE s

trim(s) == trimEnd(trimStart(s))

S_similar == <<"s", "i", "m", "i", "l", "a", "r">>
S_fn == <<"f", "n", ":">>
S_eval == <<"e", "v", "a", "l", ":">>
S_grade == <<"g", "r", "a", "d", "e", ":">>
S_is_json == <<"i", "s", "-", "j", "s", "o", "n">>
S_contains_json ==
  <<"c", "o", "n", "t", "a", "i", "n", "s", "-", "j", "s", "o", "n">>
S_output == <<"o", "u", "t", "p", "u", "t">>
S_undefined == <<"u", "n", "d", "e", "f", "i", "n", "e", "d">>

\* ------------------------------------------------------------ JSON.parse
\* JSON texts are sequences of lexical units: "{", "}", "[", "]", ",",
\* "null", and members "pass:true", "pass:false", "pass:'yes'",
\* "reason:'ok'", "reason:''", "tokensUsed:{9,9,9}".  Everything else is
\* not JSON.
MemberUnits ==
  {"pass:true", "pass:false", "pass:'yes'", "reason:'ok'", "reason:''",
   "tokensUsed:{9,9,9}"}

IsMemberList(s) ==
  /\ Len(s) % 2 = 1
  /\ \A k \in 1..Len(s) :
       IF k % 2 = 1 THEN s[k] \in MemberUnits ELSE s[k] = ","

IsJsonObject(s) ==
  /\ Len(s) >= 2
  /\ s[1] = "{"
  /\ s[Len(s)] = "}"
  /\ (Len(s) = 2 \/ IsMemberList(SubSeq(s, 2, Len(s) - 1)))

RECURSIVE IsJsonArray(_)
IsJsonArray(s) ==
  /\ Len(s) >= 2
  /\ s[1] = "["
  /\ s[Len(s)] = "]"
  /\ LET inner == SubSeq(s, 2, Len(s) - 1)
     IN  \/ inner = <<>>
         \/ inner = <<"null">>
         \/ IsJsonObject(inner)
         \/ IsJsonArray(inner)

\* the last member among units wins, as the last duplicate key does in
\* JSON.parse; "" when there is none
RECURSIVE LastIn(_, _, _)
LastIn(s, units, k) ==
  IF k = 0 THEN ""
  ELSE IF s[k] \in units THEN s[k] ELSE LastIn(s, units, k - 1)

JsonPass(s) ==
  LET m == LastIn(s, {"pass:true", "pass:false", "pass:'yes'"}, Len(s))
  IN  CASE m = "pass:true" -> JsBool(TRUE)
        [] m = "pass:false" -> JsBool(FALSE)
        [] m = "pass:'yes'" -> JsString(<<"y", "e", "s">>)
        [] OTHER -> JsUndefined

JsonReason(s) ==
  LET m == LastIn(s, {"reason:'ok'", "reason:''"}, Len(s))
  IN  CASE m = "reason:'ok'" -> Reason("ok", <<>>)
        [] m = "reason:''" -> Reason("", <<>>)
        [] OTHER -> NoReason

JsonTokensUsed(s) ==
  IF \E k \in 1..Len(s) : s[k] = "tokensUsed:{9,9,9}"
  THEN Tokens(9, 9, 9) ELSE NoTokens

\* JSON.parse(s): ok = FALSE is a SyntaxError; kind is "object" (a plain
\* object with the fields found), "array" or "null"
JSON_parse(s) ==
  IF IsJsonObject(s)
  THEN [ok |-> TRUE, kind |-> "object",
        value |-> GradingResult(JsonPass(s), JsonReason(s), JsonTokensUsed(s))]
  ELSE IF IsJsonArray(s)
  THEN [ok |-> TRUE, kind |-> "array",
        value |-> GradingResult(JsUndefined, NoReason, NoTokens)]
  ELSE IF s = <<"null">>
  THEN [ok |-> TRUE, kind |-> "null",
        value |-> GradingResult(JsUndefined, NoReason, NoTokens)]
  ELSE [ok |-> FALSE, kind |-> "error",
        value |-> GradingResult(JsUndefined, NoReason, NoTokens)]

\* ---------------------------------------------------------- containsJSON
\* /({[\s\S]*}|\[[\s\S]*])/ : leftmost opening bracket that has a matching
\* kind of closing bracket after it, up to the LAST such closing bracket
CloserOf(c) == IF c = "{" THEN "}" ELSE "]"

CanOpenAt(s, p) ==
  /\ s[p] \in {"{", "["}
  /\ \E q \in (p + 1)..Len(s) : s[q] = CloserOf(s[p])

jsonPatternMatch(s) ==
  IF \E p \in 1..Len(s) : CanOpenAt(s, p)
  THEN LET p == CHOOSE x \in 1..Len(s) :
                  CanOpenAt(s, x) /\ \A y \in 1..(x - 1) : ~CanOpenAt(s, y)
           q == CHOOSE x \in (p + 1)..Len(s) :
                  /\ s[x] = CloserOf(s[p])
                  /\ \A y \in (x + 1)..Len(s) : s[y] # CloserOf(s[p])
       IN  [found |-> TRUE, text |-> SubSeq(s, p, q)]
  ELSE [found |-> FALSE, text |-> <<>>]

containsJSON(str) ==
  LET match == jsonPatternMatch(str)
  IN  IF ~match.found THEN FALSE ELSE JSON_parse(match.text).ok

\* ------------------------------------------ new Function('output', ...)
\* customFunction(output) for the bodies of a small fragment of
\* JavaScript; every other body used here is a SyntaxError or a
\* ReferenceError.  val is the value returned.
EvalJs(body, output) ==
  LET b == trim(body)
  IN  CASE b = <<>> -> [threw |-> FALSE, val |-> JsUndefined]
        [] b = <<"1">> -> [threw |-> FALSE, val |-> JsNumber(1)]
        [] b = <<"0">> -> [threw |-> FALSE, val |-> JsNumber(0)]
        [] b = <<"!", "0">> -> [threw |-> FALSE, val |-> JsBool(TRUE)]
        [] b = <<"!", "1">> -> [threw |-> FALSE, val |-> JsBool(FALSE)]
        [] b = S_output -> [threw |-> FALSE, val |-> JsString(output)]
        [] b = S_undefined -> [threw |-> FALSE, val |-> JsUndefined]
        [] OTHER -> [threw |-> TRUE, val |-> JsUndefined]

\* ------------------------------------------------------ cosineSimilarity
RECURSIVE Dot(_, _)
Dot(a, b) ==
  IF a = <<>> \/ b = <<>> THEN 0
  ELSE Head(a) * Head(b) + Dot(Tail(a), Tail(b))

\* the similarity dot / sqrt(n2), where n2 = |a|^2 * |b|^2; NaN when n2 = 0
cosineSimilarity(a, b) == [dot |-> Dot(a, b), n2 |-> Dot(a, a) * Dot(b, b)]

\* similarity < threshold on IEEE numbers, threshold t >= 0 in hundredths;
\* every comparison with NaN is false
NumLess(sim, t) ==
  IF sim.n2 = 0 THEN FALSE
  ELSE IF sim.dot < 0 THEN TRUE
  ELSE sim.dot * sim.dot * 10000 < t * t * sim.n2

\* ------------------------------------------------------ provider calls
Call(api, text, rubric) == [api |-> api, text |-> text, rubric |-> rubric]

\* -------------------------------------------------------- matchesSimilarity
\* line 223: expectedEmbedding.error || outputEmbedding.error, one of them set
FirstError_OutputSide(expectedEmbedding, outputEmbedding) ==
  IF outputEmbedding.error # "" THEN outputEmbedding.error
  ELSE expectedEmbedding.error

FirstError(expectedEmbedding, outputEmbedding) ==
  IF expectedEmbedding.error # "" THEN expectedEmbedding.error
  ELSE outputEmbedding.error

matchesSimilarity(expected, output, threshold, expectedEmbedding, outputEmbedding) ==
  LET calls == << Call("callEmbeddingApi", expected, <<>>),
                  Call("callEmbeddingApi", output, <<>>) >>
      tokensUsed ==
        Tokens(OrZero(expectedEmbedding.tokenUsage, "total")
                 + OrZero(outputEmbedding.tokenUsage, "total"),
               OrZero(expectedEmbedding.tokenUsage, "prompt")
                 + OrZero(outputEmbedding.tokenUsage, "prompt"),
               OrZero(expectedEmbedding.tokenUsage, "completion")
                 + OrZero(outputEmbedding.tokenUsage, "completion"))
      similarity ==
        cosineSimilarity(expectedEmbedding.embedding, outputEmbedding.embedding)
      nums == << ToString(similarity.dot), ToString(similarity.n2),
                 ToString(threshold) >>
  IN  IF expectedEmbedding.error # "" \/ outputEmbedding.error # ""
      THEN Returned(GradingResult(JsBool(FALSE),
                      Reason(FirstError(expectedEmbedding, outputEmbedding), <<>>),
                      tokensUsed), calls)
      ELSE IF ~expectedEmbedding.hasEmbedding \/ ~outputEmbedding.hasEmbedding
      THEN Returned(GradingResult(JsBool(FALSE),
                      Reason("Embedding not found", <<>>), tokensUsed), calls)
      ELSE IF NumLess(similarity, threshold)
      THEN Returned(GradingResult(JsBool(FALSE),
                      Reason("Similarity is less than threshold", nums),
                      tokensUsed), calls)
      ELSE Returned(GradingResult(JsBool(TRUE),
                      Reason("Similarity is greater than threshold", nums),
                      tokensUsed), calls)

\* --------------------------------------------------------- matchesLlmRubric
\* resp.tokenUsage?.f || 0, for the three fields
RespTokens(resp) ==
  Tokens(OrZero(resp.tokenUsage, "total"), OrZero(resp.tokenUsage, "prompt"),
         OrZero(resp.tokenUsage, "completion"))

\* lines 256-260
NoGradingConfig_Graded ==
  Returned(GradingResult(JsBool(FALSE),
             Reason("Cannot grade output without grading config. Specify --grader option or grading config.", <<>>),
             NoTokens), <<>>)

NoGradingConfig ==
  Thrown("Cannot grade output without grading config. Specify --grader option or grading config.")

\* lines 286-291: the parsed object, its tokensUsed overwritten
WithCallTokens_KeepJudged(parsed, resp) ==
  IF parsed.tokensUsed.def THEN parsed
  ELSE [parsed EXCEPT !.tokensUsed = RespTokens(resp)]

WithCallTokens(parsed, resp) ==
  [parsed EXCEPT !.tokensUsed = RespTokens(resp)]

matchesLlmRubric(expected, output, options, resp) ==
  IF ~options.def
  THEN NoGradingConfig
  ELSE
    LET calls ==
          (IF options.providerIsString
           THEN << Call("loadApiProvider", <<>>, <<>>) >> ELSE <<>>)
          \o << Call("callApi", output, expected) >>
        parsed == JSON_parse(resp.output)
    IN  IF resp.error # "" \/ ~resp.hasOutput \/ resp.output = <<>>
        THEN Returned(GradingResult(JsBool(FALSE),
                        Reason(IF resp.error # "" THEN resp.error
                               ELSE "No output", <<>>),
                        RespTokens(resp)), calls)
        ELSE IF parsed.ok /\ parsed.kind # "null"
        THEN Returned(WithCallTokens(parsed.value, resp), calls)
        ELSE Returned(GradingResult(JsBool(FALSE),
                        Reason("Output is not valid JSON: ", resp.output),
                        RespTokens(resp)), calls)

\* ------------------------------------------------------------- runAssertion
\* env holds what the providers answer if they are called
runAssertion(assertion, test, output, env) ==
  CASE assertion.type = "equals" ->
         LET pass == assertion.hasValue /\ assertion.value = output
         IN  Returned(GradingResult(JsBool(pass),
                        IF pass THEN Reason("Assertion passed", <<>>)
                        ELSE Reason("Expected output ", assertion.value),
                        NoTokens), <<>>)
    [] assertion.type = "is-json" ->
         IF JSON_parse(output).ok
         THEN Returned(GradingResult(JsBool(TRUE),
                         Reason("Assertion passed", <<>>), NoTokens), <<>>)
         ELSE Returned(GradingResult(JsBool(FALSE),
                         Reason("Expected output to be valid JSON, but it isn't.", <<>>),
                         NoTokens), <<>>)
    [] assertion.type = "contains-json" ->
         LET pass == containsJSON(output)
         IN  Returned(GradingResult(JsBool(pass),
                        IF pass THEN Reason("Assertion passed", <<>>)
                        ELSE Reason("Expected output to contain valid JSON", <<>>),
                        NoTokens), <<>>)
    [] assertion.type = "javascript" ->
         LET r == EvalJs(IF assertion.hasValue THEN assertion.value
                         ELSE S_undefined,
                         output)
         IN  IF r.threw
             THEN Returned(GradingResult(JsBool(FALSE),
                             Reason("Custom function threw error: ", <<>>),
                             NoTokens), <<>>)
             ELSE Returned(GradingResult(r.val,
                             IF Truthy(r.val) THEN Reason("Assertion passed", <<>>)
                             ELSE Reason("Custom function returned false", <<>>),
                             NoTokens), <<>>)
    [] assertion.type = "similar" ->
         IF ~assertion.hasValue \/ assertion.value = <<>>
         THEN Thrown("Invariant failed: Similarity assertion must have a string value")
         ELSE matchesSimilarity(assertion.value, output,
                IF assertion.hasThreshold /\ assertion.threshold # 0
                THEN assertion.threshold ELSE 75,
                env.expectedEmbedding, env.outputEmbedding)
    [] assertion.type = "llm-rubric" ->
         IF ~assertion.hasValue \/ assertion.value = <<>>
         THEN Thrown("Invariant failed: Similarity assertion must have a string value")
         ELSE matchesLlmRubric(assertion.value, output, test.options, env.resp)
    [] OTHER -> Thrown("Unknown assertion type")

\* ------------------------------------------------------ assertionFromString
Assertion(type, hasValue, value, hasThreshold, threshold) ==
  [type |-> type, hasValue |-> hasValue, value |-> value,
   hasThreshold |-> hasThreshold, threshold |-> threshold]

DEFAULT_SEMANTIC_SIMILARITY_THRESHOLD == 80

Digits == {"0", "1", "2", "3", "4", "5", "6", "7", "8", "9"}

DigitVal(c) ==
  CASE c = "0" -> 0 [] c = "1" -> 1 [] c = "2" -> 2 [] c = "3" -> 3
    [] c = "4" -> 4 [] c = "5" -> 5 [] c = "6" -> 6 [] c = "7" -> 7
    [] c = "8" -> 8 [] c = "9" -> 9

\* first position >= p of s that holds no digit
RECURSIVE DigitsEnd(_, _)
DigitsEnd(s, p) ==
  IF p <= Len(s) /\ s[p] \in Digits THEN DigitsEnd(s, p + 1) ELSE p

\* SIMILAR_REGEX = /similar(?::|\((\d+(\.\d+)?)\):)/ tried at position p:
\* len is the length of the match (0: no match at p), and from..to is the
\* span of capture group 1 (empty when the group did not take part)
SimilarRegexAt(s, p) ==
  LET q == p + Len(S_similar)
      d == DigitsEnd(s, q + 1)
      f == IF d <= Len(s) /\ s[d] = "." /\ DigitsEnd(s, d + 1) > d + 1
           THEN DigitsEnd(s, d + 1) ELSE d
      none == [len |-> 0, from |-> 1, to |-> 0]
  IN  IF ~HasAt(s, p, S_similar) \/ q > Len(s) THEN none
      ELSE IF s[q] = ":" THEN [len |-> q + 1 - p, from |-> 1, to |-> 0]
      ELSE IF s[q] = "(" /\ d > q + 1 /\ HasAt(s, f, <<")", ":">>)
      THEN [len |-> f + 2 - p, from |-> q + 1, to |-> f - 1]
      ELSE none

\* expected.match(SIMILAR_REGEX): the leftmost match anywhere in s
SimilarRegexMatch(s) ==
  IF \E p \in 1..Len(s) : SimilarRegexAt(s, p).len > 0
  THEN LET p == CHOOSE x \in 1..Len(s) :
                  /\ SimilarRegexAt(s, x).len > 0
                  /\ \A y \in 1..(x - 1) : SimilarRegexAt(s, y).len = 0
           m == SimilarRegexAt(s, p)
       IN  [found |-> TRUE, index |-> p, len |-> m.len,
            group1 |-> SubSeq(s, m.from, m.to)]
  ELSE [found |-> FALSE, index |-> 0, len |-> 0, group1 |-> <<>>]

RECURSIVE IntOf(_)
IntOf(ds) ==
  IF ds = <<>> THEN 0
  ELSE 10 * IntOf(SubSeq(ds, 1, Len(ds) - 1)) + DigitVal(ds[Len(ds)])

\* parseFloat of capture group 1, in hundredths (the fraction has at most
\* two digits in the inputs used); NaN, for an absent group, is 0 here,
\* since both are falsy for the || that follows
parseFloat(g) ==
  LET d == DigitsEnd(g, 1)
      frac == SubSeq(g, d + 1, Len(g))
  IN  IF g = <<>> THEN 0
      ELSE 100 * IntOf(SubSeq(g, 1, d - 1))
           + (IF Len(frac) = 1 THEN 10 * IntOf(frac) ELSE IntOf(frac))

\* expected.replace(SIMILAR_REGEX, ''): the first match is removed
replaceSimilar(s) ==
  LET m == SimilarRegexMatch(s)
  IN  IF ~m.found THEN s
      ELSE SubSeq(s, 1, m.index - 1) \o SubSeq(s, m.index + m.len, Len(s))

assertionFromString(expected) ==
  LET match == SimilarRegexMatch(expected)
  IN  IF match.found
      THEN LET threshold ==
                 IF parseFloat(match.group1) # 0 THEN parseFloat(match.group1)
                 ELSE DEFAULT_SEMANTIC_SIMILARITY_THRESHOLD
               rest == trim(replaceSimilar(expected))
           IN  Assertion("similar", TRUE, rest, TRUE, threshold)
      ELSE IF startsWith(expected, S_fn) \/ startsWith(expected, S_eval)
      THEN LET sliceLength == IF startsWith(expected, S_fn)
                              THEN Len(S_fn) ELSE Len(S_eval)
           IN  Assertion("javascript", TRUE, slice(expected, sliceLength),
                         FALSE, 0)
      ELSE IF startsWith(expected, S_grade)
      THEN Assertion("llm-rubric", TRUE, slice(expected, 6), FALSE, 0)
      ELSE IF expected = S_is_json \/ expected = S_contains_json
      THEN Assertion(IF expected = S_is_json THEN "is-json" ELSE "contains-json",
                     FALSE, <<>>, FALSE, 0)
      ELSE Assertion("equals", TRUE, expected, FALSE, 0)

\* =================================================================== state
VARIABLES
  test,        \* the AtomicTestCase: [hasAssert, assert, options]
  output,      \* the candidate output string
  pc,          \* runAssertions: "idle", "call", "loop", "returned", "thrown"
  i,           \* runAssertions: index of the next assertion of the for loop
  tokensUsed,  \* runAssertions: the running total
  ret,         \* runAssertions: the GradingResult returned
  raised,      \* runAssertions: the message of the exception that left it
  evals,       \* history: the runAssertion calls made, in order
  calls,       \* history: the provider calls made, in order
  expected,    \* the shorthand string given to assertionFromString
  assertion,   \* the Assertion given to a single runAssertion call
  env,         \* the providers' answers during that call
  outcome,     \* what that call produced
  gpc          \* "idle", "input", "ready", "graded"

vars == << test, output, pc, i, tokensUsed, ret, raised, evals, calls,
           expected, assertion, env, outcome, gpc >>

runnerVars == << pc, i, tokensUsed, ret, raised, evals, calls >>
graderVars == << expected, assertion, env, outcome, gpc >>

\* ------------------------------------------------------------ input sets
S_X == <<"X">>
S_Y == <<"Y">>

Outputs == { S_X, <<"{", "}">>, <<"p", "{", "}", "s">> }

Options(def, providerIsString) ==
  [def |-> def, providerIsString |-> providerIsString]
NoOptions == Options(FALSE, FALSE)
OptionsSet == { NoOptions, Options(TRUE, FALSE), Options(TRUE, TRUE) }

Vectors == { <<1, 0>>, <<2, 1>>, <<1, 1>>, <<0, 0>> }
TokenUsages == { NoTokens, Tokens(3, 2, 1) }

EmbeddingResults(err) ==
  { [hasEmbedding |-> v # <<>>, embedding |-> v, tokenUsage |-> u, error |-> e] :
      v \in Vectors \cup {<<>>}, u \in TokenUsages, e \in {"", err} }

JudgeOutputs ==
  { <<"{", "pass:true", ",", "reason:'ok'", "}">>,
    <<"{", "pass:false", ",", "reason:'ok'", "}">>,
    <<"{", "pass:true", ",", "reason:'ok'", ",", "tokensUsed:{9,9,9}", "}">>,
    <<"{", "pass:'yes'", ",", "reason:''", "}">>,
    <<"{", "pass:true", "}">>,
    <<"{", "}">>,
    <<"[", "]">>,
    <<"null">>,
    <<"n", "o">> }

ApiResponses ==
  { [hasOutput |-> h, output |-> o, tokenUsage |-> u, error |-> e] :
      h \in {TRUE}, o \in JudgeOutputs \cup {<<>>}, u \in TokenUsages,
      e \in {"", "E3"} }
  \cup
  { [hasOutput |-> FALSE, output |-> <<>>, tokenUsage |-> u, error |-> e] :
      u \in TokenUsages, e \in {"", "E3"} }

NoEmbedding ==
  [hasEmbedding |-> FALSE, embedding |-> <<>>, tokenUsage |-> NoTokens, error |-> ""]
NoResp ==
  [hasOutput |-> FALSE, output |-> <<>>, tokenUsage |-> NoTokens, error |-> ""]
NoEnv == [expectedEmbedding |-> NoEmbedding, outputEmbedding |-> NoEmbedding,
          resp |-> NoResp]

\* the answers the providers can give during runAssertion(a, ...), drawn
\* from the given sets; only the providers that a's type can reach vary
EnvsOver(a, embs1, embs2, resps) ==
  CASE a.type = "similar" ->
         { [expectedEmbedding |-> e1, outputEmbedding |-> e2, resp |-> NoResp] :
             e1 \in embs1, e2 \in embs2 }
    [] a.type = "llm-rubric" ->
         { [expectedEmbedding |-> NoEmbedding, outputEmbedding |-> NoEmbedding,
            resp |-> r] : r \in resps }
    [] OTHER -> { NoEnv }

EnvsFor(a) ==
  EnvsOver(a, EmbeddingResults("E1"), EmbeddingResults("E2"), ApiResponses)

\* the answers used while a whole list is run: a part of those above
RunnerEnvsFor(a) ==
  EnvsOver(a,
    { e \in EmbeddingResults("E1") : e.embedding \in {<<>>, <<1, 0>>} },
    { e \in EmbeddingResults("E2") : e.embedding \in {<<>>, <<1, 0>>, <<1, 1>>} },
    { r \in ApiResponses :
        r.output \in { <<>>, <<"{", "pass:true", ",", "reason:'ok'", "}">>,
                       <<"{", "pass:'yes'", ",", "reason:''", "}">>,
                       <<"{", "}">>, <<"n", "o">> } })

NoAssertion == Assertion("", FALSE, <<>>, FALSE, 0)

AssertionSamples ==
  { Assertion("equals", TRUE, S_X, FALSE, 0),
    Assertion("equals", FALSE, <<>>, FALSE, 0),
    Assertion("is-json", FALSE, <<>>, FALSE, 0),
    Assertion("contains-json", FALSE, <<>>, FALSE, 0),
    Assertion("javascript", TRUE, <<"!", "0">>, FALSE, 0),
    Assertion("javascript", TRUE, <<"!", "1">>, FALSE, 0),
    Assertion("javascript", TRUE, <<"1">>, FALSE, 0),
    Assertion("javascript", TRUE, <<"0">>, FALSE, 0),
    Assertion("javascript", TRUE, S_output, FALSE, 0),
    Assertion("javascript", TRUE, <<"x">>, FALSE, 0),
    Assertion("javascript", FALSE, <<>>, FALSE, 0),
    Assertion("similar", TRUE, S_X, FALSE, 0),
    Assertion("similar", TRUE, S_X, TRUE, 0),
    Assertion("similar", TRUE, S_X, TRUE, 95),
    Assertion("similar", TRUE, S_X, TRUE, 100),
    Assertion("similar", TRUE, <<>>, FALSE, 0),
    Assertion("similar", FALSE, <<>>, TRUE, 80),
    Assertion("llm-rubric", TRUE, S_Y, FALSE, 0),
    Assertion("llm-rubric", TRUE, <<>>, FALSE, 0),
    Assertion("llm-rubric", FALSE, <<>>, FALSE, 0),
    Assertion("bogus", TRUE, S_X, FALSE, 0) }

\* the assertions the lists of the runner are built from
RunnerAssertions ==
  { Assertion("equals", TRUE, S_X, FALSE, 0),
    Assertion("is-json", FALSE, <<>>, FALSE, 0),
    Assertion("javascript", TRUE, <<"1">>, FALSE, 0),
    Assertion("similar", TRUE, S_X, FALSE, 0),
    Assertion("similar", TRUE, <<>>, FALSE, 0),
    Assertion("similar", FALSE, <<>>, TRUE, 80),
    Assertion("llm-rubric", TRUE, S_Y, FALSE, 0),
    Assertion("llm-rubric", FALSE, <<>>, FALSE, 0),
    Assertion("bogus", TRUE, S_X, FALSE, 0) }

SeqsUpTo(S, n) == UNION { [1..k -> S] : k \in 0..n }

TestCase(hasAssert, assert, options) ==
  [hasAssert |-> hasAssert, assert |-> assert, options |-> options]

RunnerOptions == { NoOptions, Options(TRUE, FALSE) }
RunnerOutputs == { S_X, <<"{", "}">> }

Tests ==
  { TestCase(TRUE, a, o) : a \in SeqsUpTo(RunnerAssertions, MaxAsserts),
                           o \in RunnerOptions }
  \cup { TestCase(FALSE, <<>>, o) : o \in RunnerOptions }

NoResult == GradingResult(JsUndefined, NoReason, NoTokens)
NoOutcome == Thrown("")

\* ========================================================== runAssertions
RunnerIdle ==
  /\ pc = "idle" /\ i = 0 /\ tokensUsed = Tokens(0, 0, 0) /\ ret = NoResult
  /\ raised = "" /\ evals = <<>> /\ calls = <<>>

GraderIdle ==
  /\ expected = <<>> /\ assertion = NoAssertion /\ env = NoEnv
  /\ outcome = NoOutcome /\ gpc = "idle"

Init ==
  /\ test \in Tests
  /\ output \in RunnerOutputs
  /\ pc = "call" /\ i = 0 /\ tokensUsed = Tokens(0, 0, 0) /\ ret = NoResult
  /\ raised = "" /\ evals = <<>> /\ calls = <<>>
  /\ GraderIdle

\* lines 95-103: the total is zeroed and an absent list returns at once
NoAssertionsResult ==
  GradingResult(JsBool(TRUE), Reason("No assertions", <<>>), Tokens(0, 0, 0))

\* line 101: !test.assert
HasNoAssert_OrEmpty(t) == ~t.hasAssert \/ t.assert = <<>>

HasNoAssert(t) == ~t.hasAssert

Enter ==
  /\ pc = "call"
  /\ tokensUsed' = Tokens(0, 0, 0)
  /\ IF HasNoAssert(test)
     THEN /\ ret' = NoAssertionsResult
          /\ pc' = "returned"
          /\ i' = i
     ELSE /\ ret' = ret
          /\ pc' = "loop"
          /\ i' = 1
  /\ UNCHANGED << test, output, raised, evals, calls >>
  /\ UNCHANGED graderVars

\* lines 106-115: what the loop body does with the outcome of runAssertion
LoopBody_NoShortCircuit(acc, o) ==
  IF o.thrown
  THEN [pc |-> "thrown", ret |-> NoResult, raised |-> o.error, tokensUsed |-> acc]
  ELSE [pc |-> "loop", ret |-> NoResult, raised |-> "",
        tokensUsed |->
          IF o.result.tokensUsed.def
          THEN Tokens(acc.total + o.result.tokensUsed.total,
                      acc.prompt + o.result.tokensUsed.prompt,
                      acc.completion + o.result.tokensUsed.completion)
          ELSE acc]

LoopBody(acc, o) ==
  IF o.thrown
  THEN [pc |-> "thrown", ret |-> NoResult, raised |-> o.error, tokensUsed |-> acc]
  ELSE IF ~Truthy(o.result.pass)
  THEN [pc |-> "returned", ret |-> o.result, raised |-> "", tokensUsed |-> acc]
  ELSE [pc |-> "loop", ret |-> NoResult, raised |-> "",
        tokensUsed |->
          IF o.result.tokensUsed.def
          THEN Tokens(acc.total + o.result.tokensUsed.total,
                      acc.prompt + o.result.tokensUsed.prompt,
                      acc.completion + o.result.tokensUsed.completion)
          ELSE acc]

Iterate ==
  /\ pc = "loop"
  /\ i <= Len(test.assert)
  /\ \E e \in RunnerEnvsFor(test.assert[i]) :
       LET o == runAssertion(test.assert[i], test, output, e)
           n == LoopBody(tokensUsed, o)
       IN  /\ pc' = n.pc
           /\ ret' = n.ret
           /\ raised' = n.raised
           /\ tokensUsed' = n.tokensUsed
           /\ i' = IF n.pc = "loop" THEN i + 1 ELSE i
           /\ evals' = Append(evals, [index |-> i, outcome |-> o])
           /\ calls' = calls \o [k \in 1..Len(o.calls) |->
                                   [index |-> i, call |-> o.calls[k]]]
  /\ UNCHANGED << test, output >>
  /\ UNCHANGED graderVars

\* line 118
AllPassedResult(acc) ==
  GradingResult(JsBool(TRUE), Reason("All assertions passed", <<>>), acc)

ReturnAllPassed ==
  /\ pc = "loop"
  /\ i > Len(test.assert)
  /\ ret' = AllPassedResult(tokensUsed)
  /\ pc' = "returned"
  /\ UNCHANGED << test, output, i, tokensUsed, raised, evals, calls >>
  /\ UNCHANGED graderVars

Next == Enter \/ Iterate \/ ReturnAllPassed

Spec == Init /\ [][Next]_vars

\* ============================================== a single runAssertion call
InitGrade ==
  /\ test \in { TestCase(FALSE, <<>>, o) : o \in OptionsSet }
  /\ output \in Outputs
  /\ assertion \in AssertionSamples
  /\ gpc = "ready"
  /\ expected = <<>> /\ env = NoEnv /\ outcome = NoOutcome
  /\ RunnerIdle

Grade ==
  /\ gpc = "ready"
  /\ \E e \in EnvsFor(assertion) :
       /\ env' = e
       /\ outcome' = runAssertion(assertion, test, output, e)
  /\ gpc' = "graded"
  /\ UNCHANGED << test, output, expected, assertion >>
  /\ UNCHANGED runnerVars

NextGrade == Grade

SpecGrade == InitGrade /\ [][NextGrade]_vars

\* ================================ assertionFromString, then runAssertion
Pieces ==
  { S_similar \o <<":">>,
    S_similar \o <<"(", "0", ".", "9", ")", ":">>,
    S_similar \o <<"(", "0", ")", ":">>,
    S_similar \o <<"(">>,
    S_fn, S_eval, S_grade, S_is_json, S_contains_json,
    <<" ">>, <<"x">> }

RECURSIVE Flatten(_)
Flatten(ps) == IF ps = <<>> THEN <<>> ELSE Head(ps) \o Flatten(Tail(ps))

ParseInputs == { Flatten(ps) : ps \in SeqsUpTo(Pieces, MaxPieces) }

InitParse ==
  /\ expected \in ParseInputs
  /\ gpc = "input"
  /\ test = TestCase(FALSE, <<>>, Options(TRUE, FALSE))
  /\ output = S_X
  /\ assertion = NoAssertion /\ env = NoEnv /\ outcome = NoOutcome
  /\ RunnerIdle

Parse ==
  /\ gpc = "input"
  /\ assertion' = assertionFromString(expected)
  /\ gpc' = "parsed"
  /\ UNCHANGED << test, output, expected, env, outcome >>
  /\ UNCHANGED runnerVars

GradeParsed ==
  /\ gpc = "parsed"
  /\ \E e \in RunnerEnvsFor(assertion) :
       /\ env' = e
       /\ outcome' = runAssertion(assertion, test, output, e)
  /\ gpc' = "graded"
  /\ UNCHANGED << test, output, expected, assertion >>
  /\ UNCHANGED runnerVars

NextParse == Parse \/ GradeParsed

SpecParse == InitParse /\ [][NextParse]_vars

\* ================================================================ claims
Passing(o) == ~o.thrown /\ Truthy(o.result.pass)

CallsOf(k) == { j \in 1..Len(calls) : calls[j].index = k }

NonEmptyValue(a) == a.hasValue /\ a.value # <<>>

\* ---------------------------------------------------------------------
\* C1: runAssertions evaluates the assertions in list order, one at a
\* time: the k-th runAssertion call is for assertion k and is made only
\* after assertions 1..k-1 each returned a passing result; provider calls
\* are made only for assertions that are evaluated, in that order; when an
\* assertion does not pass, runAssertions returns that assertion's result
\* unchanged, and from then on no assertion is evaluated and no provider
\* call starts.
C1_State ==
  /\ \A k \in 1..Len(evals) : evals[k].index = k
  /\ \A k \in 1..(Len(evals) - 1) : Passing(evals[k].outcome)
  /\ \A j \in 1..Len(calls) :
       /\ calls[j].index \in 1..Len(evals)
       /\ j > 1 => calls[j - 1].index <= calls[j].index
  /\ (evals # <<>> /\ ~Passing(evals[Len(evals)].outcome)) =>
       /\ pc \in {"returned", "thrown"}
       /\ pc = "returned" => ret = evals[Len(evals)].outcome.result
  /\ (pc = "returned" /\ evals # <<>> /\ Passing(evals[Len(evals)].outcome)) =>
       Len(evals) = Len(test.assert)

C1_InOrderShortCircuit ==
  [][ /\ C1_State'
      /\ (evals # <<>> /\ ~Passing(evals[Len(evals)].outcome)) =>
           UNCHANGED << evals, calls, ret, pc >> ]_vars

C1_Witness ==
  /\ pc = "returned"
  /\ Len(test.assert) = 2
  /\ Len(evals) = 1
  /\ ~evals[1].outcome.thrown
  /\ ~Truthy(evals[1].outcome.result.pass)
  /\ evals[1].outcome.calls # <<>>
  /\ ret = evals[1].outcome.result
  /\ test.assert[2].type \in {"similar", "llm-rubric"}
  /\ NonEmptyValue(test.assert[2])
  /\ CallsOf(2) = {}

\* ---------------------------------------------------------------------
\* C2: whatever the outcome, the tokensUsed returned by runAssertions is
\* the field-wise sum of the tokensUsed of every assertion evaluated, up
\* to and including the terminal one (absent tokensUsed counts as zero).
RECURSIVE SumField(_, _, _)
SumField(es, f, k) ==
  IF k = 0 THEN 0
  ELSE OrZero(es[k].outcome.result.tokensUsed, f) + SumField(es, f, k - 1)

C2_TokensAreSumOfEvaluated ==
  pc = "returned" =>
    \A f \in {"total", "prompt", "completion"} :
      OrZero(ret.tokensUsed, f) = SumField(evals, f, Len(evals))

\* ---------------------------------------------------------------------
\* C3 as stated: a test with no assertions, the list absent or present
\* but empty, returns pass = true, reason "No assertions" and zero token
\* usage, with nothing evaluated and no provider called.
HasNoAssertions(t) == ~t.hasAssert \/ t.assert = <<>>

C3_Original ==
  (pc = "returned" /\ HasNoAssertions(test)) =>
    /\ ret = GradingResult(JsBool(TRUE), Reason("No assertions", <<>>),
                           Tokens(0, 0, 0))
    /\ evals = <<>>
    /\ calls = <<>>

\* C3 amended: a test with no assertions returns pass = true and zero
\* token usage, with nothing evaluated and no provider called; the reason
\* is "No assertions" when the list is absent and "All assertions passed"
\* when the list is present but empty.
C3_NoAssertions ==
  (pc = "returned" /\ HasNoAssertions(test)) =>
    /\ ret = GradingResult(JsBool(TRUE),
                           Reason(IF test.hasAssert THEN "All assertions passed"
                                  ELSE "No assertions", <<>>),
                           Tokens(0, 0, 0))
    /\ evals = <<>>
    /\ calls = <<>>

C3_Witness ==
  /\ pc = "returned"
  /\ test.hasAssert
  /\ test.assert = <<>>
  /\ ret.reason.msg = "All assertions passed"

\* ---------------------------------------------------------------------
\* C4: an assertion of unrecognized type, a similar or llm-rubric
\* assertion with a missing or empty value, and an llm-rubric assertion
\* while test.options is absent make runAssertion raise an exception
\* without calling a provider, and the exception leaves runAssertions: it
\* returns no result.
KnownTypes ==
  {"equals", "is-json", "contains-json", "javascript", "similar", "llm-rubric"}

IsConfigurationError(a, t) ==
  \/ a.type \notin KnownTypes
  \/ a.type \in {"similar", "llm-rubric"} /\ ~NonEmptyValue(a)
  \/ a.type = "llm-rubric" /\ ~t.options.def

C4_ConfigurationErrorsAreRaised ==
  \A k \in 1..Len(evals) :
    IsConfigurationError(test.assert[k], test) =>
      /\ evals[k].outcome.thrown
      /\ evals[k].outcome.calls = <<>>
      /\ CallsOf(k) = {}
      /\ pc = "thrown"
      /\ raised = evals[k].outcome.error
      /\ raised # ""
      /\ ret = NoResult

C4_Witness ==
  /\ pc = "thrown"
  /\ Len(evals) = 2
  /\ test.assert[2].type = "llm-rubric"
  /\ NonEmptyValue(test.assert[2])
  /\ ~test.options.def
  /\ calls # <<>>

\* ---------------------------------------------------------------------
\* C5: a provider-reported error is a graded failure.  In
\* matchesSimilarity, an error of either embedding call gives pass =
\* false with the expected-side error as reason when there is one and the
\* output-side error otherwise, and the field-wise sum of both calls'
\* token usage; in matchesLlmRubric, an error or no output gives pass =
\* false with the error (or "No output") as reason and the call's usage.
C5_ProviderErrorsAreGraded ==
  gpc = "graded" =>
    /\ ( /\ assertion.type = "similar"
         /\ NonEmptyValue(assertion)
         /\ (env.expectedEmbedding.error # "" \/ env.outputEmbedding.error # "") )
       =>
         /\ ~outcome.thrown
         /\ outcome.result.pass = JsBool(FALSE)
         /\ outcome.result.reason =
              Reason(IF env.expectedEmbedding.error # ""
                     THEN env.expectedEmbedding.error
                     ELSE env.outputEmbedding.error, <<>>)
         /\ outcome.result.tokensUsed.def
         /\ \A f \in {"total", "prompt", "completion"} :
              outcome.result.tokensUsed[f] =
                OrZero(env.expectedEmbedding.tokenUsage, f)
                  + OrZero(env.outputEmbedding.tokenUsage, f)
    /\ ( /\ assertion.type = "llm-rubric"
         /\ NonEmptyValue(assertion)
         /\ test.options.def
         /\ (env.resp.error # "" \/ ~env.resp.hasOutput \/ env.resp.output = <<>>) )
       =>
         /\ ~outcome.thrown
         /\ outcome.result.pass = JsBool(FALSE)
         /\ outcome.result.reason =
              Reason(IF env.resp.error # "" THEN env.resp.error ELSE "No output",
                     <<>>)
         /\ outcome.result.tokensUsed.def
         /\ \A f \in {"total", "prompt", "completion"} :
              outcome.result.tokensUsed[f] = OrZero(env.resp.tokenUsage, f)

C5_Witness ==
  /\ gpc = "graded"
  /\ assertion.type = "similar"
  /\ NonEmptyValue(assertion)
  /\ env.expectedEmbedding.error = "E1"
  /\ env.outputEmbedding.error = "E2"
  /\ env.expectedEmbedding.tokenUsage.def
  /\ env.outputEmbedding.tokenUsage.def
  /\ outcome.result.reason.msg = "E1"
  /\ outcome.result.tokensUsed = Tokens(6, 4, 2)

\* ---------------------------------------------------------------------
\* C6: for a similar assertion with non-empty value whose two embeddings
\* are returned without error, runAssertion passes iff the cosine
\* similarity is not less than the assertion's threshold, the default
\* 0.75 being used only when the assertion carries no threshold (an
\* explicit threshold, 0 included, is the one compared against).
C6_ThresholdCompared ==
  ( /\ gpc = "graded"
    /\ assertion.type = "similar"
    /\ NonEmptyValue(assertion)
    /\ env.expectedEmbedding.error = "" /\ env.expectedEmbedding.hasEmbedding
    /\ env.outputEmbedding.error = "" /\ env.outputEmbedding.hasEmbedding )
  =>
    /\ ~outcome.thrown
    /\ outcome.result.pass =
         JsBool(~NumLess(cosineSimilarity(env.expectedEmbedding.embedding,
                                          env.outputEmbedding.embedding),
                         IF assertion.hasThreshold THEN assertion.threshold
                         ELSE 75))

\* ---------------------------------------------------------------------
\* C7: every GradingResult returned by runAssertion has a boolean pass
\* and a non-empty string reason, for every assertion type and every
\* provider response.
Populated(r) == r.def /\ ~(r.msg = "" /\ r.arg = <<>>)

C7_ResultsAreWellFormed ==
  (gpc = "graded" /\ ~outcome.thrown) =>
    /\ IsBoolean(outcome.result.pass)
    /\ Populated(outcome.result.reason)

\* ---------------------------------------------------------------------
\* C8: assertionFromString classifies every string by one rule, in this
\* order: similar iff the string BEGINS with similar: or
\* similar(<float>): (value: the remainder after that prefix, trimmed);
\* else javascript iff it starts with fn: or eval: (value: the rest);
\* else llm-rubric iff it starts with grade: (value: the rest after 6
\* characters); else is-json / contains-json with no value iff it is
\* exactly that; else equals with the full string as value.
ClaimedClass(str) ==
  LET m == SimilarRegexAt(str, 1)
  IN  IF m.len > 0
      THEN [type |-> "similar", hasValue |-> TRUE,
            value |-> trim(slice(str, m.len))]
      ELSE IF startsWith(str, S_fn)
      THEN [type |-> "javascript", hasValue |-> TRUE, value |-> slice(str, 3)]
      ELSE IF startsWith(str, S_eval)
      THEN [type |-> "javascript", hasValue |-> TRUE, value |-> slice(str, 5)]
      ELSE IF startsWith(str, S_grade)
      THEN [type |-> "llm-rubric", hasValue |-> TRUE, value |-> slice(str, 6)]
      ELSE IF str = S_is_json
      THEN [type |-> "is-json", hasValue |-> FALSE, value |-> <<>>]
      ELSE IF str = S_contains_json
      THEN [type |-> "contains-json", hasValue |-> FALSE, value |-> <<>>]
      ELSE [type |-> "equals", hasValue |-> TRUE, value |-> str]

C8_ClassifiedByPrefix ==
  gpc \in {"parsed", "graded"} =>
    /\ assertion.type = ClaimedClass(expected).type
    /\ assertion.hasValue = ClaimedClass(expected).hasValue
    /\ assertion.value = ClaimedClass(expected).value

\* ---------------------------------------------------------------------
\* C9: every Assertion returned by assertionFromString of type similar or
\* llm-rubric has a non-empty value, so that running it through
\* runAssertion with grading options present never raises the
\* missing-value configuration error.
C9_ParsedValueNonEmpty ==
  /\ gpc \in {"parsed", "graded"} =>
       (assertion.type \in {"similar", "llm-rubric"} => NonEmptyValue(assertion))
  /\ gpc = "graded" =>
       ~( /\ outcome.thrown
          /\ outcome.error =
               "Invariant failed: Similarity assertion must have a string value" )

\* ---------------------------------------------------------------------
\* C10: when the llm-rubric provider call returns output without error
\* and the output parses as a JSON object, the result of matchesLlmRubric
\* has tokensUsed equal to the token usage of this call (missing fields
\* as 0), whatever tokensUsed the judge's JSON contained; when the output
\* does not parse, the result is pass = false with a reason embedding the
\* raw output and the same call's token usage.
C10_RubricTokensAreTheCalls ==
  ( /\ gpc = "graded"
    /\ assertion.type = "llm-rubric"
    /\ NonEmptyValue(assertion)
    /\ test.options.def
    /\ env.resp.error = ""
    /\ env.resp.hasOutput
    /\ env.resp.output # <<>> )
  =>
    /\ ~outcome.thrown
    /\ outcome.result.tokensUsed.def
    /\ \A f \in {"total", "prompt", "completion"} :
         outcome.result.tokensUsed[f] = OrZero(env.resp.tokenUsage, f)
    /\ JSON_parse(env.resp.output).kind = "object" =>
         /\ outcome.result.pass = JSON_parse(env.resp.output).value.pass
         /\ outcome.result.reason = JSON_parse(env.resp.output).value.reason
    /\ ~JSON_parse(env.resp.output).ok =>
         /\ outcome.result.pass = JsBool(FALSE)
         /\ outcome.result.reason.def
         /\ outcome.result.reason.arg = env.resp.output

C10_Witness ==
  /\ gpc = "graded"
  /\ assertion.type = "llm-rubric"
  /\ test.options.def
  /\ env.resp.error = ""
  /\ env.resp.output =
       <<"{", "pass:true", ",", "reason:'ok'", ",", "tokensUsed:{9,9,9}", "}">>
  /\ env.resp.tokenUsage = Tokens(3, 2, 1)
  /\ ~outcome.thrown
  /\ outcome.result.tokensUsed = Tokens(3, 2, 1)

====
